---- MODULE Spec2Model ----
(***************************************************************************)
(* Model of the batch endpoint analyze_invoices of src/main.py and of the  *)
(* rendering loop of src/app.py.  One request is followed from the upload  *)
(* to the response; file names and extracted texts are sequences of        *)
(* one-character strings so that lower(), endswith(), startswith(),        *)
(* basename() and strip() are computed as the code computes them.          *)
(***************************************************************************)
EXTENDS Integers, Sequences, FiniteSets, TLC

\* Largest number of entries of an uploaded archive.
MaxEntries == 2

(***************************************************************************)
(* Strings                                                                 *)
(***************************************************************************)
LowerChar(c) ==
    CASE c = "A" -> "a" [] c = "B" -> "b" [] c = "C" -> "c" [] c = "D" -> "d"
      [] c = "F" -> "f" [] c = "M" -> "m" [] c = "O" -> "o" [] c = "P" -> "p"
      [] c = "S" -> "s" [] c = "X" -> "x" [] OTHER -> c

Lower(s) == [i \in 1..Len(s) |-> LowerChar(s[i])]

EndsWith(s, suffix) ==
    /\ Len(s) >= Len(suffix)
    /\ SubSeq(s, Len(s) - Len(suffix) + 1, Len(s)) = suffix

StartsWith(s, prefix) ==
    /\ Len(s) >= Len(prefix)
    /\ SubSeq(s, 1, Len(prefix)) = prefix

LastSep(p) ==
    LET S == {i \in 1..Len(p) : p[i] = "/"}
    IN  IF S = {} THEN 0 ELSE CHOOSE i \in S : \A j \in S : j <= i

Basename(p) == SubSeq(p, LastSep(p) + 1, Len(p))

Dirname(p) == SubSeq(p, 1, LastSep(p) - 1)

IsSpace(c) == c \in {" ", "\n"}

RECURSIVE LStrip(_)
LStrip(t) ==
    IF t = <<>> THEN <<>>
    ELSE IF IsSpace(Head(t)) THEN LStrip(Tail(t)) ELSE t

RECURSIVE RStrip(_)
RStrip(t) ==
    IF t = <<>> THEN <<>>
    ELSE IF IsSpace(t[Len(t)]) THEN RStrip(SubSeq(t, 1, Len(t) - 1)) ELSE t

Strip(t) == RStrip(LStrip(t))

DotPdf == <<".", "p", "d", "f">>
MacosxPrefix == <<"_", "_", "M", "A", "C", "O", "S", "X", "/">>
InvoicesDir == <<"i", "n", "v", "o", "i", "c", "e", "s">>

(***************************************************************************)
(* Files.  A file is a PDF (a sequence of pages), a ZIP (a sequence of     *)
(* entries), a directory, or bytes that are neither a PDF nor a ZIP.       *)
(***************************************************************************)
Page(t) == [none |-> FALSE, text |-> t]
NonePage == [none |-> TRUE, text |-> <<>>]

PdfFile(pages) == [fmt |-> "pdf", pages |-> pages, entries |-> <<>>]
ZipFile(entries) == [fmt |-> "zip", pages |-> <<>>, entries |-> entries]
JunkFile == [fmt |-> "junk", pages |-> <<>>, entries |-> <<>>]
DirNode == [fmt |-> "dir", pages |-> <<>>, entries |-> <<>>]

TextPdf == PdfFile(<<Page(<<" ">>), Page(<<"x", "\n">>)>>)
BlankPdf == PdfFile(<<Page(<<" ">>), NonePage, Page(<<"\n">>)>>)
EmptyPdf == PdfFile(<<>>)

\* the uploads a request can carry
PolicyFilenames ==
    { <<"p", ".", "p", "d", "f">>, <<"P", ".", "P", "D", "F">>,
      <<"p", ".", "t", "x", "t">>, InvoicesDir }
PolicyContents == {TextPdf, BlankPdf, EmptyPdf, JunkFile}
ZipFilenames ==
    { <<"z", ".", "z", "i", "p">>, <<"p", ".", "p", "d", "f">>, InvoicesDir }

ArchiveEntries ==
    { [name |-> <<"a", ".", "p", "d", "f">>, file |-> TextPdf],
      [name |-> <<"B", ".", "P", "D", "F">>, file |-> BlankPdf],
      [name |-> <<"c", ".", "p", "d", "f">>, file |-> JunkFile],
      [name |-> MacosxPrefix \o <<"a", ".", "p", "d", "f">>, file |-> TextPdf],
      [name |-> <<"n", ".", "t", "x", "t">>, file |-> TextPdf],
      [name |-> <<"d", "/", "a", ".", "p", "d", "f">>, file |-> TextPdf] }

Archives == UNION {[1..n -> ArchiveEntries] : n \in 0..MaxEntries}
ZipContents == {ZipFile(a) : a \in Archives} \cup {JunkFile}

(***************************************************************************)
(* extract_text_from_pdf                                                   *)
(***************************************************************************)
PageText(pg) == IF pg.none THEN <<>> ELSE pg.text

RECURSIVE ConcatPages(_)
ConcatPages(pages) ==
    IF pages = <<>> THEN <<>>
    ELSE PageText(Head(pages)) \o ConcatPages(Tail(pages))

Exc(http, status, msg) == [http |-> http, status |-> status, msg |-> msg]
NoExc == Exc(FALSE, 0, "")

extract_text_from_pdf(f) ==
    IF f.fmt = "pdf"
    THEN [raised |-> FALSE, text |-> ConcatPages(f.pages), exc |-> NoExc]
    ELSE [raised |-> TRUE, text |-> <<>>,
          exc |-> Exc(FALSE, 0, "Failed to extract text from PDF")]

(***************************************************************************)
(* JSON values and the replies of the external model                       *)
(***************************************************************************)
KeyId == "Invoice identifier"
KeyStatus == "Reimbursement Status"
KeyAmount == "Reimbursable Amount"
KeyReason == "Reason"
WireKeys == {KeyId, KeyStatus, KeyAmount, KeyReason}

EmptyDict == [k \in {} |-> 0]
JDict(f) == [type |-> "dict", val |-> f]
JList(items) == [type |-> "list", val |-> items]
JNull == [type |-> "null", val |-> <<>>]
Malformed == [type |-> "malformed", val |-> <<>>]

Reply(call, raw) == [call |-> call, raw |-> raw]

LlmReplies ==
    << Reply("error", JNull),
       Reply("ok", Malformed),
       Reply("ok", JDict((KeyId :> <<"m">>) @@ (KeyStatus :> "Fully Reimbursed")
                         @@ (KeyAmount :> 80) @@ (KeyReason :> <<"clause 3.2">>))),
       Reply("ok", JDict((KeyStatus :> "Partially Reimbursed")
                         @@ (KeyAmount :> 50) @@ (KeyReason :> <<"meal limit">>))),
       Reply("ok", JDict((KeyStatus :> "Declined")
                         @@ (KeyAmount :> 0) @@ (KeyReason :> <<"excluded">>))),
       Reply("ok", JDict(EmptyDict)),
       Reply("ok", JList(<<>>)),
       Reply("ok", JNull),
       Reply("ok", JList(<<KeyId>>)) >>

(***************************************************************************)
(* analyze_invoice_with_llm: the result of one call, given the reply       *)
(***************************************************************************)
Contains(j, key) ==
    IF j.type = "dict" THEN key \in DOMAIN j.val
    ELSE \E i \in 1..Len(j.val) : j.val[i] = key

Returned(v) == [raised |-> FALSE, value |-> v, exc |-> NoExc]
Raised(e) == [raised |-> TRUE, value |-> JNull, exc |-> e]

LlmFailed == Exc(TRUE, 500, "Failed to analyze invoice with LLM")
LlmMalformed == Exc(TRUE, 500, "LLM returned malformed JSON for invoice")

analyze_invoice_with_llm(reply, invoice_filename) ==
    IF reply.call = "error" THEN Raised(LlmFailed)
    ELSE IF reply.raw.type = "malformed" THEN Raised(LlmMalformed)
    ELSE IF reply.raw.type \notin {"dict", "list"} THEN Raised(LlmFailed)
    ELSE IF Contains(reply.raw, KeyId) THEN Returned(reply.raw)
    ELSE IF reply.raw.type = "dict"
         THEN Returned(JDict((KeyId :> invoice_filename) @@ reply.raw.val))
         ELSE Raised(LlmFailed)

(***************************************************************************)
(* The verdicts the orchestrator writes itself                             *)
(***************************************************************************)
BlankTextVerdict(invoice_filename) ==
    JDict(("invoice_identifier" :> invoice_filename)
          @@ ("reimbursement_status" :> "Declined")
          @@ ("reimbursable_amount" :> 0)
          @@ ("reason" :> <<"Could not extract readable text from this invoice PDF.">>))

ErrorVerdict(invoice_filename, e) ==
    JDict((KeyId :> invoice_filename)
          @@ (KeyStatus :> "Declined")
          @@ (KeyAmount :> 0)
          @@ (KeyReason :> <<"Processing error: ", e.msg>>))

\* InvoiceAnalysis: a field is populated by its alias or by its field name
FieldOf(v, alias, field_name) ==
    IF v.type # "dict" THEN <<"absent">>
    ELSE IF alias \in DOMAIN v.val THEN <<"present", v.val[alias]>>
    ELSE IF field_name \in DOMAIN v.val THEN <<"present", v.val[field_name]>>
    ELSE <<"absent">>

VerdictStatus(v) == FieldOf(v, KeyStatus, "reimbursement_status")
VerdictAmount(v) == FieldOf(v, KeyAmount, "reimbursable_amount")
VerdictReason(v) == FieldOf(v, KeyReason, "reason")

\* the counters of the loop, lines 290-296
Counts(f, p, d) == [fully |-> f, partially |-> p, declined |-> d]

TallyStatus(c, v) ==
    LET status == IF KeyStatus \in DOMAIN v.val THEN <<v.val[KeyStatus]>> ELSE <<>>
    IN  IF status = <<"Fully Reimbursed">>
          THEN Counts(c.fully + 1, c.partially, c.declined)
        ELSE IF status = <<"Partially Reimbursed">>
          THEN Counts(c.fully, c.partially + 1, c.declined)
        ELSE IF status = <<"Declined">>
          THEN Counts(c.fully, c.partially, c.declined + 1)
        ELSE c

TallyDeclined(c) == Counts(c.fully, c.partially, c.declined + 1)

\* the comparison with declined_count lost
OverallStatusFullyOnly(results, c) ==
    IF Len(results) > 0
    THEN IF c.fully = Len(results) THEN "All Fully Reimbursed"
         ELSE "Mixed Status"
    ELSE "No Invoices Processed"

OverallStatus(results, c) ==
    IF Len(results) > 0
    THEN IF c.fully = Len(results) THEN "All Fully Reimbursed"
         ELSE IF c.declined = Len(results) THEN "All Declined"
         ELSE "Mixed Status"
    ELSE "No Invoices Processed"

\* the test for the metadata prefix lost
QualifiesAnyPdf(member) == EndsWith(Lower(member), DotPdf)

\* the archive members that are taken as invoices, lines 251-252
Qualifies(member) ==
    /\ EndsWith(Lower(member), DotPdf)
    /\ ~StartsWith(member, MacosxPrefix)

IsPdfName(filename) == EndsWith(Lower(filename), DotPdf)

\* the test without strip()
IsBlankNoStrip(text) == text = <<>>

IsBlank(text) == Strip(text) = <<>>

(***************************************************************************)
(* The temporary directory                                                 *)
(***************************************************************************)
EmptyDisk == [p \in {} |-> DirNode]

WriteFile(d, path, f) == (path :> f) @@ d

CanOpenForWrite(d, path) ==
    /\ path \in DOMAIN d => d[path].fmt # "dir"
    /\ \/ Dirname(path) = <<>>
       \/ /\ Dirname(path) \in DOMAIN d
          /\ d[Dirname(path)].fmt = "dir"

MemberPath(member) == InvoicesDir \o <<"/">> \o member

\* zip_ref.extract(name, dir) writes the last entry of that name
RECURSIVE ExtractMembers(_, _, _)
ExtractMembers(d, entries, members) ==
    IF members = <<>> THEN d
    ELSE LET m == Head(members)
             last == CHOOSE i \in 1..Len(entries) :
                        /\ entries[i].name = m
                        /\ \A j \in 1..Len(entries) : entries[j].name = m => j <= i
         IN  ExtractMembers(WriteFile(d, MemberPath(m), entries[last].file),
                            entries, Tail(members))

\* a finally clause that removes nothing
TempDirKept(td, exists) == exists

\* the finally clause, lines 331-335: does the directory exist afterwards
TempDirAfterFinally(td, exists) ==
    IF td # "None" /\ exists THEN FALSE ELSE exists

\* a loop that lets HTTPException through, as the endpoint's own clause does
LoopCatchesNonHttp(e) == ~e.http

\* the except clause of the loop, line 298: which exceptions it catches
LoopCatches(e) == TRUE

\* invoice_analysis.get(...) on a value that is not a dict, line 290
NoGetAttribute == Exc(FALSE, 0, "object has no attribute 'get'")

\* the except clauses of the endpoint, lines 324-330
ResponseStatusOf(e) == IF e.http THEN e.status ELSE 500

(***************************************************************************)
(* State of one request                                                    *)
(***************************************************************************)
VARIABLES
    policy_file,        \* the upload: [filename, file]
    invoice_zip,        \* the upload: [filename, file]
    pc,                 \* position of the endpoint coroutine
    temp_dir,           \* "None" or "tmp"
    dir_exists,         \* does the temporary directory exist on disk
    disk,               \* the files below the temporary directory, by path
    policy_text,
    invoice_files,      \* paths of the extracted invoices, in listing order
    idx,                \* position of the for loop in invoice_files
    invoice_text,
    analysis_results,
    counts,             \* fully_reimbursed_count, partially_..., declined_count
    response,           \* [status, overall_status, invoice_analyses]
    started,            \* history: invoices whose handling has started, in order
    origin,             \* history: for each entry of analysis_results, its invoice
    llm_calls,          \* history: the invoice of each model invocation
    caught              \* history: exceptions caught by the loop, [invoice, exc, at]

vars == <<policy_file, invoice_zip, pc, temp_dir, dir_exists, disk, policy_text,
          invoice_files, idx, invoice_text, analysis_results, counts, response,
          started, origin, llm_calls, caught>>

NoResponse == [status |-> 0, overall_status |-> "", invoice_analyses |-> <<>>]
ErrorResponse(status) ==
    [status |-> status, overall_status |-> "", invoice_analyses |-> <<>>]

Init ==
    /\ policy_file \in [filename : PolicyFilenames, file : PolicyContents]
    /\ invoice_zip \in [filename : ZipFilenames, file : ZipContents]
    /\ pc = "start"
    /\ temp_dir = "None"
    /\ dir_exists = FALSE
    /\ disk = EmptyDisk
    /\ policy_text = <<>>
    /\ invoice_files = <<>>
    /\ idx = 1
    /\ invoice_text = <<>>
    /\ analysis_results = <<>>
    /\ counts = Counts(0, 0, 0)
    /\ response = NoResponse
    /\ started = <<>>
    /\ origin = <<>>
    /\ llm_calls = <<>>
    /\ caught = <<>>

\* an exception leaves the try block: except clauses, finally clause, response
Abort(e, td, exists) ==
    /\ response' = ErrorResponse(ResponseStatusOf(e))
    /\ dir_exists' = TempDirAfterFinally(td, exists)
    /\ disk' = EmptyDisk
    /\ pc' = "done"

(***************************************************************************)
(* Lines 223-236: create the directory and save the two uploads            *)
(***************************************************************************)
SaveUploads ==
    /\ pc = "start"
    /\ temp_dir' = "tmp"
    /\ LET d0 == WriteFile(EmptyDisk, InvoicesDir, DirNode)
           d1 == WriteFile(d0, policy_file.filename, policy_file.file)
           d2 == WriteFile(d1, invoice_zip.filename, invoice_zip.file)
       IN  IF ~CanOpenForWrite(d0, policy_file.filename)
             THEN Abort(Exc(FALSE, 0, "Is a directory"), "tmp", TRUE)
           ELSE IF ~CanOpenForWrite(d1, invoice_zip.filename)
             THEN Abort(Exc(FALSE, 0, "Is a directory"), "tmp", TRUE)
           ELSE /\ disk' = d2
                /\ dir_exists' = TRUE
                /\ pc' = "policy"
                /\ UNCHANGED response
    /\ UNCHANGED <<policy_file, invoice_zip, policy_text, invoice_files, idx,
                   invoice_text, analysis_results, counts, started, origin,
                   llm_calls, caught>>

(***************************************************************************)
(* Lines 238-244: the policy's name and text                               *)
(***************************************************************************)
ExtractPolicy ==
    /\ pc = "policy"
    /\ LET r == extract_text_from_pdf(disk[policy_file.filename])
       IN  IF ~IsPdfName(policy_file.filename)
             THEN /\ Abort(Exc(TRUE, 400, "HR Policy file must be a PDF."),
                           temp_dir, dir_exists)
                  /\ UNCHANGED policy_text
           ELSE IF r.raised
             THEN /\ Abort(r.exc, temp_dir, dir_exists)
                  /\ UNCHANGED policy_text
           ELSE IF IsBlank(r.text)
             THEN /\ Abort(Exc(TRUE, 400, "Could not extract text from HR Policy PDF."),
                           temp_dir, dir_exists)
                  /\ UNCHANGED policy_text
           ELSE /\ policy_text' = r.text
                /\ pc' = "unzip"
                /\ UNCHANGED <<response, dir_exists, disk>>
    /\ UNCHANGED <<policy_file, invoice_zip, temp_dir, invoice_files, idx,
                   invoice_text, analysis_results, counts, started, origin,
                   llm_calls, caught>>

(***************************************************************************)
(* Lines 246-257: unpack the archive                                       *)
(***************************************************************************)
Namelist(entries) == [i \in 1..Len(entries) |-> entries[i].name]

UnpackArchive ==
    /\ pc = "unzip"
    /\ LET z == disk[invoice_zip.filename]
           members == SelectSeq(Namelist(z.entries), Qualifies)
       IN  IF z.fmt # "zip"
             THEN /\ Abort(Exc(FALSE, 0, "File is not a zip file"), temp_dir, dir_exists)
                  /\ UNCHANGED invoice_files
           ELSE IF members = <<>>
             THEN /\ Abort(Exc(TRUE, 400, "No PDF invoice files found"),
                           temp_dir, dir_exists)
                  /\ UNCHANGED invoice_files
           ELSE /\ invoice_files' = [i \in 1..Len(members) |-> MemberPath(members[i])]
                /\ disk' = ExtractMembers(disk, z.entries, members)
                /\ pc' = "loop"
                /\ UNCHANGED <<response, dir_exists>>
    /\ UNCHANGED <<policy_file, invoice_zip, temp_dir, policy_text, idx,
                   invoice_text, analysis_results, counts, started, origin,
                   llm_calls, caught>>

(***************************************************************************)
(* Lines 265-286: start of one iteration, up to the call of the model      *)
(***************************************************************************)
\* a loop that tries the invoice again when the analyzer has failed
RecordErrorOrRetry(results, e) ==
    IF e.http
    THEN /\ pc' = "loop"
         /\ UNCHANGED <<analysis_results, caught, counts, idx, response,
                        dir_exists, disk>>
    ELSE /\ analysis_results' = Append(results, ErrorVerdict(Basename(invoice_files[idx]), e))
         /\ caught' = Append(caught, [invoice |-> idx, exc |-> e, at |-> Len(results) + 1])
         /\ counts' = TallyDeclined(counts)
         /\ idx' = idx + 1
         /\ pc' = "loop"
         /\ UNCHANGED <<response, dir_exists, disk>>

RecordError(results, e) ==
    /\ analysis_results' = Append(results, ErrorVerdict(Basename(invoice_files[idx]), e))
    /\ caught' = Append(caught, [invoice |-> idx, exc |-> e, at |-> Len(results) + 1])
    /\ counts' = TallyDeclined(counts)
    /\ idx' = idx + 1
    /\ pc' = "loop"
    /\ UNCHANGED <<response, dir_exists, disk>>

BeginInvoice ==
    /\ pc = "loop"
    /\ idx <= Len(invoice_files)
    /\ started' = Append(started, idx)
    /\ LET invoice_filename == Basename(invoice_files[idx])
           r == extract_text_from_pdf(disk[invoice_files[idx]])
       IN  IF r.raised /\ ~LoopCatches(r.exc)
             THEN /\ Abort(r.exc, temp_dir, dir_exists)
                  /\ UNCHANGED <<analysis_results, counts, idx, origin, caught,
                                 invoice_text, llm_calls>>
           ELSE IF r.raised
             THEN /\ RecordError(analysis_results, r.exc)
                  /\ origin' = Append(origin, idx)
                  /\ UNCHANGED <<invoice_text, llm_calls>>
           ELSE IF IsBlank(r.text)
             THEN /\ invoice_text' = r.text
                  /\ analysis_results' =
                         Append(analysis_results, BlankTextVerdict(invoice_filename))
                  /\ counts' = TallyDeclined(counts)
                  /\ origin' = Append(origin, idx)
                  /\ idx' = idx + 1
                  /\ UNCHANGED <<pc, response, dir_exists, disk, caught, llm_calls>>
           ELSE /\ invoice_text' = r.text
                /\ llm_calls' = Append(llm_calls, idx)
                /\ pc' = "await_llm"
                /\ UNCHANGED <<analysis_results, counts, idx, origin, caught,
                               response, dir_exists, disk>>
    /\ UNCHANGED <<policy_file, invoice_zip, temp_dir, policy_text, invoice_files>>

(***************************************************************************)
(* Lines 141-175 and 287-307: the model has replied, or the call failed    *)
(***************************************************************************)
LlmReturns ==
    /\ pc = "await_llm"
    /\ \E n \in 1..Len(LlmReplies) :
         LET res == analyze_invoice_with_llm(LlmReplies[n], Basename(invoice_files[idx]))
             appended == Append(analysis_results, res.value)
         IN  IF res.raised /\ ~LoopCatches(res.exc)
               THEN /\ Abort(res.exc, temp_dir, dir_exists)
                    /\ UNCHANGED <<analysis_results, counts, idx, origin, caught>>
             ELSE IF res.raised
               THEN /\ RecordError(analysis_results, res.exc)
                    /\ origin' = Append(origin, idx)
             ELSE IF res.value.type = "dict"
               THEN /\ analysis_results' = appended
                    /\ counts' = TallyStatus(counts, res.value)
                    /\ origin' = Append(origin, idx)
                    /\ idx' = idx + 1
                    /\ pc' = "loop"
                    /\ UNCHANGED <<response, dir_exists, disk, caught>>
             ELSE IF ~LoopCatches(NoGetAttribute)
               THEN /\ Abort(NoGetAttribute, temp_dir, dir_exists)
                    /\ analysis_results' = appended
                    /\ origin' = Append(origin, idx)
                    /\ UNCHANGED <<counts, idx, caught>>
             ELSE /\ RecordError(appended, NoGetAttribute)
                  /\ origin' = Append(Append(origin, idx), idx)
    /\ UNCHANGED <<policy_file, invoice_zip, temp_dir, policy_text, invoice_files,
                   invoice_text, started, llm_calls>>

(***************************************************************************)
(* Lines 309-322 and 331-335: the loop is over                             *)
(***************************************************************************)
Respond ==
    /\ pc = "loop"
    /\ idx > Len(invoice_files)
    /\ response' = [status |-> 200,
                    overall_status |-> OverallStatus(analysis_results, counts),
                    invoice_analyses |-> analysis_results]
    /\ dir_exists' = TempDirAfterFinally(temp_dir, dir_exists)
    /\ disk' = EmptyDisk
    /\ pc' = "done"
    /\ UNCHANGED <<policy_file, invoice_zip, temp_dir, policy_text, invoice_files,
                   idx, invoice_text, analysis_results, counts, started, origin,
                   llm_calls, caught>>

Next ==
    \/ SaveUploads
    \/ ExtractPolicy
    \/ UnpackArchive
    \/ BeginInvoice
    \/ LlmReturns
    \/ Respond

Spec == Init /\ [][Next]_vars

(***************************************************************************)
(* src/app.py, lines 76-81: what the rendering client reads of a verdict   *)
(***************************************************************************)
Get(v, key) ==
    IF key \in DOMAIN v.val THEN <<"value", v.val[key]>> ELSE <<"default">>

ClientReads(v) ==
    [invoice_id |-> Get(v, "Invoice identifier"),
     status |-> Get(v, "Reimbursement Status"),
     reimbursable_amount |-> Get(v, "Reimbursable Amount"),
     reason |-> Get(v, "Reason")]

(***************************************************************************)
(* Vocabulary of the properties, computed from the uploads themselves      *)
(***************************************************************************)
ClaimPdfNamed(n) ==
    /\ Len(n) >= 4
    /\ n[Len(n) - 3] = "."
    /\ n[Len(n) - 2] \in {"p", "P"}
    /\ n[Len(n) - 1] \in {"d", "D"}
    /\ n[Len(n)] \in {"f", "F"}

ClaimMetadata(n) ==
    /\ Len(n) >= Len(MacosxPrefix)
    /\ \A i \in 1..Len(MacosxPrefix) : n[i] = MacosxPrefix[i]

ClaimInvoiceEntries ==
    {i \in 1..Len(invoice_zip.file.entries) :
        /\ ClaimPdfNamed(invoice_zip.file.entries[i].name)
        /\ ~ClaimMetadata(invoice_zip.file.entries[i].name)}

\* the archived file behind the i-th extracted invoice
ClaimInvoiceFile(i) ==
    LET es == invoice_zip.file.entries
        js == {j \in 1..Len(es) : MemberPath(es[j].name) = invoice_files[i]}
    IN  es[CHOOSE j \in js : \A h \in js : h <= j].file

ClaimBlankInvoice(i) ==
    /\ ClaimInvoiceFile(i).fmt = "pdf"
    /\ \A p \in 1..Len(ClaimInvoiceFile(i).pages) :
         LET pg == ClaimInvoiceFile(i).pages[p]
         IN  pg.none \/ \A h \in 1..Len(pg.text) : pg.text[h] \in {" ", "\n"}

StatusIs(v, s) ==
    LET f == VerdictStatus(v) IN f[1] = "present" /\ f[2] = s

AmountIs(v, a) ==
    LET f == VerdictAmount(v) IN f[1] = "present" /\ f[2] = a

VerdictsOf(i) == {k \in 1..Len(analysis_results) : origin[k] = i}

\* C1: a batch answered with 200 has exactly one entry of invoice_analyses for
\* each archive entry named *.pdf (any case) outside __MACOSX/, whatever the
\* extraction gives and whatever the model replies.
C1_OneVerdictPerInvoice ==
    response.status = 200 =>
        Len(response.invoice_analyses) = Cardinality(ClaimInvoiceEntries)

C3_InvoiceErrorsAreLocal ==
    /\ \A n \in 1..Len(caught) :
         LET c == caught[n]
             v == analysis_results[c.at]
         IN  /\ origin[c.at] = c.invoice
             /\ v.type = "dict"
             /\ DOMAIN v.val = WireKeys
             /\ v.val[KeyStatus] = "Declined"
             /\ v.val[KeyAmount] = 0
             /\ v.val[KeyReason] = <<"Processing error: ", c.exc.msg>>
    /\ \A i \in 1..Len(invoice_files) :
         (i < idx /\ ClaimInvoiceFile(i).fmt # "pdf") =>
             \E n \in 1..Len(caught) :
                 /\ caught[n].invoice = i
                 /\ caught[n].exc.msg = "Failed to extract text from PDF"
    /\ (started # <<>> /\ pc = "done") =>
         /\ response.status = 200
         /\ response.invoice_analyses = analysis_results
         /\ \A i \in 1..Len(invoice_files) : VerdictsOf(i) # {}

C3_Witness ==
    /\ pc = "done"
    /\ Len(invoice_files) = 2
    /\ \E n \in 1..Len(caught) : caught[n].invoice = 1 /\ caught[n].exc.http
    /\ \E n \in 1..Len(caught) : caught[n].invoice = 2 /\ ~caught[n].exc.http

\* C4: an invoice whose extracted text is empty or only whitespace gets a
\* verdict Declined with amount 0, and the model is not invoked for it.
C4_BlankInvoiceDeclined ==
    \A i \in 1..Len(invoice_files) :
        ClaimBlankInvoice(i) =>
            /\ \A n \in 1..Len(llm_calls) : llm_calls[n] # i
            /\ i < idx =>
                 /\ VerdictsOf(i) # {}
                 /\ \A k \in VerdictsOf(i) :
                        /\ StatusIs(analysis_results[k], "Declined")
                        /\ AmountIs(analysis_results[k], 0)

C4_Witness ==
    /\ pc = "done"
    /\ response.status = 200
    /\ llm_calls # <<>>
    /\ \E i \in 1..Len(invoice_files) : ClaimBlankInvoice(i) /\ VerdictsOf(i) # {}

\* C5: a policy upload whose name does not end in .pdf (any case) ends the
\* request with 400, and the model is never invoked.
C5_NonPdfPolicyIs400 ==
    (pc = "done" /\ ~ClaimPdfNamed(policy_file.filename)) =>
        /\ response.status = 400
        /\ llm_calls = <<>>

\* C6: with the policy accepted and an archive without any qualifying PDF
\* entry the request ends with 400, no verdict, no model invocation.
C6_NoInvoiceIs400 ==
    (/\ pc = "done"
     /\ policy_text # <<>>
     /\ invoice_zip.file.fmt = "zip"
     /\ ClaimInvoiceEntries = {}) =>
        /\ response.status = 400
        /\ analysis_results = <<>>
        /\ llm_calls = <<>>

C6_Witness ==
    /\ pc = "done"
    /\ policy_text # <<>>
    /\ invoice_zip.file.fmt = "zip"
    /\ ClaimInvoiceEntries = {}
    /\ \E i \in 1..Len(invoice_zip.file.entries) :
           ClaimMetadata(invoice_zip.file.entries[i].name)

\* C7: a PDF-named policy whose extraction does not give non-blank text ends
\* the request with 400, before the archive is unpacked and without any model
\* invocation (stated for uploads that were both stored, under distinct names,
\* so that it is the policy's own bytes that are read).
C7_UnreadablePolicyIs400 ==
    (/\ pc = "done"
     /\ ClaimPdfNamed(policy_file.filename)
     /\ invoice_zip.filename \notin {InvoicesDir, policy_file.filename}
     /\ policy_text = <<>>) =>
        /\ response.status = 400
        /\ invoice_files = <<>>
        /\ llm_calls = <<>>

\* C8: when the request has completed, with 200, 400 or 500, its temporary
\* directory no longer exists.
C8_TempDirRemoved ==
    pc = "done" =>
        /\ response.status \in {200, 400, 500}
        /\ ~dir_exists

C8_Witness ==
    /\ pc = "done"
    /\ temp_dir = "tmp"
    /\ response.status = 500
    /\ ~dir_exists

\* C9: every verdict of a 200 response carries identifier, status, amount and
\* reason under the four names the rendering client reads.
C9_WireFieldNames ==
    response.status = 200 =>
        \A k \in 1..Len(response.invoice_analyses) :
            LET v == response.invoice_analyses[k]
            IN  /\ v.type = "dict"
                /\ ClientReads(v).invoice_id[1] = "value"
                /\ ClientReads(v).status[1] = "value"
                /\ ClientReads(v).reimbursable_amount[1] = "value"
                /\ ClientReads(v).reason[1] = "value"

\* C10: invoices are handled one at a time in listing order, invoice i+1 not
\* before the verdict of invoice i is recorded, and the k-th verdict belongs to
\* the k-th qualifying entry of the archive.
C10_ListingOrder ==
    /\ \A p \in 1..Len(started) :
         /\ started[p] = p
         /\ \A i \in 1..(p - 1) : VerdictsOf(i) # {}
    /\ \A n \in 1..Len(llm_calls) : llm_calls[n] = started[Len(started)]
                                    \/ VerdictsOf(llm_calls[n]) # {}
    /\ \A k \in 1..Len(analysis_results) :
         /\ origin[k] = k
         /\ \E j \in ClaimInvoiceEntries :
              /\ Cardinality({h \in ClaimInvoiceEntries : h <= j}) = k
              /\ invoice_files[k] = MemberPath(invoice_zip.file.entries[j].name)

\* the invoices whose extraction gives text that is not blank
ClaimReadableInvoices ==
    {i \in 1..Len(invoice_files) :
        ClaimInvoiceFile(i).fmt = "pdf" /\ ~ClaimBlankInvoice(i)}

\* C11: the model is invoked at most once per invoice; a failed call is not
\* repeated and leaves a Declined verdict; a completed request has made as
\* many invocations as it has invoices with non-blank extracted text, and
\* none when it ends with 400.
C11_NoRetries ==
    /\ \A m, n \in 1..Len(llm_calls) : m # n => llm_calls[m] # llm_calls[n]
    /\ \A n \in 1..Len(llm_calls) : llm_calls[n] \in ClaimReadableInvoices
    /\ \A n \in 1..Len(caught) :
         caught[n].exc.http =>
             /\ idx > caught[n].invoice
             /\ StatusIs(analysis_results[caught[n].at], "Declined")
             /\ origin[caught[n].at] = caught[n].invoice
    /\ pc = "done" => Len(llm_calls) = Cardinality(ClaimReadableInvoices)
    /\ response.status = 400 => llm_calls = <<>>

C11_Witness ==
    /\ pc = "done"
    /\ response.status = 200
    /\ Len(llm_calls) = 2
    /\ \E n \in 1..Len(caught) : caught[n].invoice = 1 /\ caught[n].exc.http

====
